---- MODULE Spec2Model ----
(***************************************************************************)
(* Model of dgp/utils/visualization.py: the mosaic assembler, the 2D box   *)
(* renderer, the point-cloud-on-image renderer and the BEVImage canvas.    *)
(*                                                                         *)
(* Conventions.                                                            *)
(*  - A Python call that raises is a result record with ok = FALSE and the *)
(*    exception's name in err.                                             *)
(*  - An optional argument is None or Some(v).                             *)
(*  - A float is a fixed-point number: an integer numerator over a named   *)
(*    denominator (ScaleDen for the mosaic's scale, CoordDen for metric    *)
(*    and projected coordinates).  int(x) and astype(int) truncate toward  *)
(*    zero (Trunc), float comparisons are made on the numerators.          *)
(*  - A colour is its RGB triple.                                          *)
(***************************************************************************)
EXTENDS Integers, Sequences, FiniteSets, TLC

VARIABLES
    call,   \* the last call made: its name and arguments
    ret,    \* what that call returned, or the exception it raised
    img,    \* the caller's image passed to render_bbox2d_on_image (mutated in place)
    self,   \* the BEVImage object: its fields, or None while none was constructed
    ctor,   \* the arguments self was constructed with (history)
    log,    \* the cv2 drawing calls the last BEVImage call issued, in order
    ncalls  \* number of calls made so far

vars == <<call, ret, img, self, ctor, log, ncalls>>

None == [given |-> FALSE]

Some(v) == [given |-> TRUE, v |-> v]

(***************************************************************************)
(* Colour constants, lines 9-14.                                           *)
(***************************************************************************)
COLOR_RED == <<255, 0, 0>>
COLOR_GREEN == <<0, 255, 0>>
COLOR_BLUE == <<0, 0, 255>>
COLOR_GRAY == <<100, 100, 100>>
COLOR_DARKGRAY == <<50, 50, 50>>
COLOR_WHITE == <<255, 255, 255>>
COLOR_BLACK == <<0, 0, 0>>

(***************************************************************************)
(* Arithmetic helpers.                                                     *)
(***************************************************************************)
Abs(x) == IF x < 0 THEN -x ELSE x

Max(a, b) == IF a >= b THEN a ELSE b

\* int(n / d) for d > 0: truncation toward zero.
Trunc(n, d) == IF n >= 0 THEN n \div d ELSE -((-n) \div d)

\* np.ceil(a / b) for b # 0.
CeilDiv(a, b) == IF b > 0 THEN -((-a) \div b) ELSE -(a \div (-b))

\* np.ceil(np.sqrt(n)) for n >= 1.
CeilSqrt(n) == CHOOSE k \in 1..n : k * k >= n /\ (k - 1) * (k - 1) < n

RECURSIVE SumSeq(_)
SumSeq(s) == IF s = <<>> THEN 0 ELSE Head(s) + SumSeq(Tail(s))

Fail(e) == [ok |-> FALSE, err |-> e]

(***************************************************************************)
(* Bounds of the mosaic inputs.                                            *)
(***************************************************************************)
MaxItems == 3       \* images per mosaic call
MaxDim == 2         \* image height and width
ScaleDen == 2       \* scale = numerator / ScaleDen
MaxScaleNum == 3    \* largest scale numerator
MaxPad == 1         \* largest pad
MaxGrid == 3        \* largest grid_width given

Shapes == (1..MaxDim) \X (1..MaxDim)

\* An input image is its shape (h, w); its position in items identifies it.
\* The first image has any shape, the others share a second shape.
ItemLists ==
    {<<>>} \cup
    {[j \in 1..n |-> IF j = 1 THEN first ELSE rest] :
        n \in 1..MaxItems, first \in Shapes, rest \in Shapes}

ScaleNums == (-1)..MaxScaleNum
Pads == 0..MaxPad
GridWidths == {None} \cup {Some(g) : g \in (-2)..MaxGrid}

(***************************************************************************)
(* mosaic, lines 42-87.                                                    *)
(***************************************************************************)
\* cv2.resize(items[j], dsize=target_shape), line 76: a tile of the target
\* size holding image j; cv2 rejects an empty destination size.
resize(j, tw, th) ==
    IF tw <= 0 \/ th <= 0 THEN Fail("cv2.error")
    ELSE [ok |-> TRUE, src |-> j, h |-> th, w |-> tw, pad |-> 0]

\* np.zeros_like(mosaic_items[-1]), line 79: a black tile of the same size.
zeros_like(tile) == [tile EXCEPT !.src = 0]

\* Mutant of im_pad: the border is added on one side only.
im_pad_one_side(tile, pad) ==
    [tile EXCEPT !.h = tile.h + pad, !.w = tile.w + pad, !.pad = pad]

\* im_pad, line 82: cv2.copyMakeBorder(im, pad, pad, pad, pad, ...): pad
\* pixels on the top, bottom, left and right.
im_pad(tile, pad) ==
    [tile EXCEPT !.h = tile.h + pad + pad, !.w = tile.w + pad + pad, !.pad = pad]

\* The loop of lines 72-79 over j in range(count), as the list it appends to.
RECURSIVE mosaic_items(_, _, _, _)
mosaic_items(count, N, tw, th) ==
    IF count <= 0 THEN <<>>
    ELSE LET prev == mosaic_items(count - 1, N, tw, th)
             j == count - 1
         IN  IF j < N
             THEN Append(prev, resize(j + 1, tw, th))
             ELSE Append(prev, zeros_like(prev[Len(prev)]))

\* np.hstack of one row of tiles: heights must agree, widths add up.
np_hstack(row) ==
    IF \E i \in 1..Len(row) : row[i].h # row[1].h THEN Fail("ValueError")
    ELSE [ok |-> TRUE, h |-> row[1].h,
          w |-> SumSeq([i \in 1..Len(row) |-> row[i].w]), tiles |-> <<row>>]

\* np.vstack of the rows: widths must agree, heights add up.
np_vstack(rows) ==
    IF \E i \in 1..Len(rows) : rows[i].w # rows[1].w THEN Fail("ValueError")
    ELSE [ok |-> TRUE, w |-> rows[1].w,
          h |-> SumSeq([i \in 1..Len(rows) |-> rows[i].h]),
          tiles |-> [i \in 1..Len(rows) |-> rows[i].tiles[1]]]

\* range(0, n, step) of line 84, as the list of its values.
range_step(n, step) ==
    IF step > 0 THEN [i \in 1..CeilDiv(n, step) |-> (i - 1) * step]
    ELSE <<>>     \* a negative step from 0 toward n >= 0 yields nothing

\* Line 68: np.ceil(N * 1. / grid_width).astype(np.int).
grid_height_of(N, grid_width) == CeilDiv(N, grid_width)

\* Mutant of grid_width_of: the sign of a given grid_width is dropped.
grid_width_abs(grid_width, N) ==
    IF ~grid_width.given \/ grid_width.v = 0 THEN CeilSqrt(N) ELSE Abs(grid_width.v)

\* Line 67: grid_width if grid_width else ceil(sqrt(N)); None and 0 are falsy.
grid_width_of(grid_width, N) ==
    IF ~grid_width.given \/ grid_width.v = 0 THEN CeilSqrt(N) ELSE grid_width.v

mosaic(items, scaleNum, pad, grid_width_arg) ==
    LET N == Len(items) IN
    IF ~(N > 0) THEN Fail("AssertionError")
    ELSE
    LET grid_width == grid_width_of(grid_width_arg, N)
        grid_height == grid_height_of(N, grid_width)
        tw == Trunc(items[1][2] * scaleNum, ScaleDen)
        th == Trunc(items[1][1] * scaleNum, ScaleDen)
        count == grid_width * grid_height
        resized == Max(0, IF count < N THEN count ELSE N)
    IN
    IF resized > 0 /\ ~resize(1, tw, th).ok THEN resize(1, tw, th)
    ELSE
    LET tiles == mosaic_items(count, N, tw, th)
        padded == [i \in 1..Len(tiles) |-> im_pad(tiles[i], pad)]
        starts == range_step(Len(padded), grid_width)
        hstack == [r \in 1..Len(starts) |->
                      np_hstack(SubSeq(padded, starts[r] + 1,
                                       IF starts[r] + grid_width < Len(padded)
                                       THEN starts[r] + grid_width ELSE Len(padded)))]
    IN
    IF \E r \in 1..Len(hstack) : ~hstack[r].ok THEN Fail("ValueError")
    ELSE IF Len(hstack) > 1 THEN np_vstack(hstack)
    ELSE IF Len(hstack) = 1 THEN hstack[1]
    ELSE Fail("IndexError")

NoCall == [name |-> "none"]
NoImage == <<>>

InitIdle ==
    /\ call = NoCall
    /\ ret = None
    /\ img = NoImage
    /\ self = None
    /\ ctor = None
    /\ log = <<>>
    /\ ncalls = 0

\* One call of mosaic with any arguments of the bounded sets.
CallMosaic ==
    /\ ncalls < 1
    /\ \E items \in ItemLists, sn \in ScaleNums, pad \in Pads, gw \in GridWidths :
          /\ call' = [name |-> "mosaic", items |-> items, scale |-> sn,
                      pad |-> pad, grid_width |-> gw]
          /\ ret' = mosaic(items, sn, pad, gw)
    /\ ncalls' = ncalls + 1
    /\ UNCHANGED <<img, self, ctor, log>>

SpecMosaic == InitIdle /\ [][CallMosaic]_vars

(***************************************************************************)
(* Claims about mosaic.                                                    *)
(***************************************************************************)
MosaicCalled == call.name = "mosaic" /\ Len(call.items) >= 1

\* What the claim computes from the arguments.
C1_gw == IF call.grid_width.given THEN call.grid_width.v ELSE CeilSqrt(Len(call.items))
C1_gh == CHOOSE k \in 0..Len(call.items) : k * C1_gw >= Len(call.items)
                                           /\ (k - 1) * C1_gw < Len(call.items)
C1_tile_w == Trunc(call.items[1][2] * call.scale, ScaleDen)
C1_tile_h == Trunc(call.items[1][1] * call.scale, ScaleDen)
C1_Covered == MosaicCalled /\ (call.grid_width.given => call.grid_width.v > 0)
C1_Size ==
    /\ ret.ok
    /\ ret.w = C1_gw * (C1_tile_w + 2 * call.pad)
    /\ ret.h = C1_gh * (C1_tile_h + 2 * call.pad)
    /\ Len(ret.tiles) = C1_gh
    /\ \A r \in 1..Len(ret.tiles) : Len(ret.tiles[r]) = C1_gw
C1_SingleTile ==
    ret.tiles = << << [ok |-> TRUE, src |-> 1, h |-> C1_tile_h + 2 * call.pad,
                       w |-> C1_tile_w + 2 * call.pad, pad |-> call.pad] >> >>

\* C1 as stated: for any N >= 1 images, any scale, any pad >= 0 and any positive
\* or absent grid_width the mosaic is grid_width * (tile_w + 2 pad) wide and
\* grid_height * (tile_h + 2 pad) high, has grid_width * grid_height tiles,
\* and for N = 1 is the single padded, rescaled tile.
C1_Original ==
    C1_Covered => C1_Size /\ (Len(call.items) = 1 => C1_SingleTile)

\* C1 amended: the same, for a scale that leaves the tile at least one pixel
\* wide and high (cv2.resize raises otherwise), and the N = 1 mosaic is the
\* single tile when the grid is one column wide (grid_width 1 or absent).
C1_MosaicSize ==
    C1_Covered /\ C1_tile_w >= 1 /\ C1_tile_h >= 1
        => C1_Size /\ (Len(call.items) = 1 /\ C1_gw = 1 => C1_SingleTile)

\* Three images on a two-column grid, scaled and padded: two rows, the last
\* cell a black tile.
C1_Witness ==
    /\ C1_Covered /\ Len(call.items) = 3 /\ call.grid_width = Some(2)
    /\ call.scale = 3 /\ call.pad = 1 /\ call.items[1] = <<2, 1>>
    /\ ret.ok /\ ret.h = 10 /\ ret.w = 6
    /\ ret.tiles[2][2].src = 0

\* C2 as stated: with a non-empty list, a grid_width given as zero or negative
\* makes mosaic fail.
C2_Original ==
    MosaicCalled /\ call.grid_width.given /\ call.grid_width.v <= 0 => ~ret.ok

\* C2 amended: a negative grid_width makes mosaic fail; a grid_width of zero
\* is taken as not given, and the call returns what it returns without
\* grid_width.
C2_NonPositiveGridWidth ==
    MosaicCalled /\ call.grid_width.given =>
        /\ call.grid_width.v < 0 => ~ret.ok
        /\ call.grid_width.v = 0 =>
              ret = mosaic(call.items, call.scale, call.pad, None)

\* A negative grid_width with a valid tile size: no row is stacked and
\* hstack[0] raises.
C2_Witness ==
    /\ MosaicCalled /\ call.grid_width = Some(-2) /\ Len(call.items) = 3
    /\ call.scale = 2
    /\ ~ret.ok /\ ret.err = "IndexError"

(***************************************************************************)
(* Images and the cv2 drawing primitives.  An image is a function from row *)
(* to column to colour, rows 0..H-1 and columns 0..W-1; a pixel is         *)
(* <<row, column>>, a point handed to cv2 is <<x, y>> = <<column, row>>.   *)
(* Stroke thickness and glyph shapes are abstracted: a line is its         *)
(* one-pixel raster, a text label is the pixel at its anchor.              *)
(***************************************************************************)
Height(im) == Cardinality(DOMAIN im)
Width(im) == IF DOMAIN im = {} THEN 0 ELSE Cardinality(DOMAIN im[0])
Pixels(im) == {<<r, c>> \in (DOMAIN im) \X (0..(Width(im) - 1)) : TRUE}
Uniform(h, w, colour) == [r \in 0..(h - 1) |-> [c \in 0..(w - 1) |-> colour]]

\* Writing colour at the pixels of set px that lie inside the image; cv2 clips
\* what falls outside.
Paint(im, px, colour) ==
    [r \in DOMAIN im |-> [c \in DOMAIN im[r] |->
        IF <<r, c>> \in px THEN colour ELSE im[r][c]]]

Between(a, lo, hi) == (lo <= a /\ a <= hi) \/ (hi <= a /\ a <= lo)

\* The pixels of the segment from p to q (both <<x, y>>) inside an h x w image.
LinePixels(p, q, h, w) ==
    LET dx == q[1] - p[1]
        dy == q[2] - p[2]
    IN  {px \in (0..(h - 1)) \X (0..(w - 1)) :
            /\ Between(px[2], p[1], q[1])
            /\ Between(px[1], p[2], q[2])
            /\ 2 * Abs(dx * (px[1] - p[2]) - dy * (px[2] - p[1])) <= Max(Abs(dx), Abs(dy))}

\* cv2.polylines(img, [box], True, colour, thickness=2): the closed outline
\* through the corners of box.
PolyPixels(box, h, w) ==
    UNION {LinePixels(box[i], box[(i % Len(box)) + 1], h, w) : i \in 1..Len(box)}

\* cv2.putText(img, text, org, ...): the label's pixels.
TextPixels(org, h, w) ==
    {px \in (0..(h - 1)) \X (0..(w - 1)) : px[2] = org[1] /\ px[1] = org[2]}

(***************************************************************************)
(* Bounds of the render_bbox2d_on_image inputs.                            *)
(***************************************************************************)
ImgSize == 2        \* the image is ImgSize x ImgSize
MaxBoxes == 2       \* boxes per call
MaxBoxSize == 1     \* largest box width and height

\* Boxes (x, y, w, h), square, from one pixel outside the image on either side.
BBoxes2d ==
    {<<x, y, s, s>> : x \in (-1)..ImgSize, y \in (-1)..ImgSize, s \in 0..MaxBoxSize}

SeqsUpTo(S, n) == UNION {[1..k -> S] : k \in 0..n}

Palette == {COLOR_GREEN, COLOR_BLUE}
Labels == {"car"}

(***************************************************************************)
(* render_bbox2d_on_image, lines 90-130.                                   *)
(***************************************************************************)
\* Lines 112-116: the four integer corners of a box (x, y, w, h).
box_corners(b) ==
    << <<b[1], b[2]>>, <<b[1] + b[3], b[2]>>,
       <<b[1] + b[3], b[2] + b[4]>>, <<b[1], b[2] + b[4]>> >>

\* Mutant of draw_boxes: the boxes are drawn last to first.
RECURSIVE draw_boxes_reversed(_, _, _, _)
draw_boxes_reversed(im, boxes, colour_of, n) ==
    IF n = 0 THEN im
    ELSE draw_boxes_reversed(
             Paint(im, PolyPixels(boxes[n], Height(im), Width(im)), colour_of[n]),
             boxes, colour_of, n - 1)

\* Lines 121-122 (and the single call of line 118): the boxes drawn in order,
\* box idx in colour_of[idx]; a later box paints over an earlier one.
RECURSIVE draw_boxes(_, _, _, _)
draw_boxes(im, boxes, colour_of, n) ==
    IF n = 0 THEN im
    ELSE Paint(draw_boxes(im, boxes, colour_of, n - 1),
               PolyPixels(boxes[n], Height(im), Width(im)), colour_of[n])

\* Lines 127-129: every label drawn in white at its box's first corner.
RECURSIVE draw_texts(_, _, _)
draw_texts(im, boxes, n) ==
    IF n = 0 THEN im
    ELSE Paint(draw_texts(im, boxes, n - 1),
               TextPixels(boxes[n][1], Height(im), Width(im)), COLOR_WHITE)

\* Lines 117-120: the assertion on colors, made whenever colors is not None.
colors_ok(boxes, colors) == ~colors.given \/ Len(boxes) = Len(colors.v)

\* Mutant of texts_ok: the lengths are compared whenever texts is not None.
texts_ok_not_none(boxes, texts) == ~texts.given \/ Len(boxes) = Len(texts.v)

\* Lines 125-126: the assertion on texts, made when texts is truthy (neither
\* None nor an empty list).
texts_ok(boxes, texts) ==
    ~texts.given \/ texts.v = <<>> \/ Len(boxes) = Len(texts.v)

\* The whole function: the image as the call leaves it, and its result.
render_bbox2d_on_image(im, bboxes2d, colors, texts) ==
    LET boxes == [i \in 1..Len(bboxes2d) |-> box_corners(bboxes2d[i])]
        colour_of == IF colors.given THEN colors.v
                     ELSE [i \in 1..Len(boxes) |-> COLOR_RED]
    IN
    IF ~colors_ok(boxes, colors)
    THEN [img |-> im, ret |-> Fail("AssertionError: len(boxes) != len(colors)")]
    ELSE
    LET boxed == draw_boxes(im, boxes, colour_of, Len(boxes)) IN
    IF ~texts_ok(boxes, texts)
    THEN [img |-> boxed, ret |-> Fail("AssertionError: len(boxes) != len(texts)")]
    ELSE IF texts.given /\ texts.v # <<>>
    THEN [img |-> draw_texts(boxed, boxes, Len(boxes)), ret |-> [ok |-> TRUE]]
    ELSE [img |-> boxed, ret |-> [ok |-> TRUE]]

OptSeqs(S, n) == {None} \cup {Some(q) : q \in SeqsUpTo(S, n)}

InitBBox ==
    /\ call = NoCall
    /\ ret = None
    /\ img \in {Uniform(ImgSize, ImgSize, c) : c \in {COLOR_BLACK, COLOR_GREEN}}
    /\ self = None
    /\ ctor = None
    /\ log = <<>>
    /\ ncalls = 0

\* One call of render_bbox2d_on_image on the caller's image.
CallRenderBBox2d ==
    /\ ncalls < 1
    /\ \E bboxes2d \in SeqsUpTo(BBoxes2d, MaxBoxes),
          colors \in OptSeqs(Palette, MaxBoxes + 1),
          texts \in OptSeqs(Labels, MaxBoxes + 1) :
          LET out == render_bbox2d_on_image(img, bboxes2d, colors, texts) IN
          /\ call' = [name |-> "render_bbox2d_on_image", img |-> img,
                      bboxes2d |-> bboxes2d, colors |-> colors, texts |-> texts]
          /\ img' = out.img
          /\ ret' = out.ret
    /\ ncalls' = ncalls + 1
    /\ UNCHANGED <<self, ctor, log>>

SpecBBox == InitBBox /\ [][CallRenderBBox2d]_vars

(***************************************************************************)
(* Claims about render_bbox2d_on_image.                                    *)
(***************************************************************************)
BBoxCalled == call.name = "render_bbox2d_on_image"
C3_N == Len(call.bboxes2d)
C3_ColorsMismatch == call.colors.given /\ Len(call.colors.v) # C3_N
C3_TextsMismatch == call.texts.given /\ Len(call.texts.v) # C3_N

\* C3 as stated: with N boxes the call fails whenever a colors list is given
\* whose length is not N and whenever a texts list is given whose length is
\* not N (a shorter, a longer or an empty one); with matching lengths it
\* does not fail.
C3_Original ==
    BBoxCalled =>
        /\ C3_ColorsMismatch => ~ret.ok
        /\ C3_TextsMismatch => ~ret.ok
        /\ ~C3_ColorsMismatch /\ ~C3_TextsMismatch => ret.ok

\* C3 amended: the call fails exactly when a colors list is given whose
\* length is not N (an empty one included) or a non-empty texts list is
\* given whose length is not N; an empty texts list is taken as no texts
\* and never fails.
C3_LengthMismatch ==
    BBoxCalled =>
        (~ret.ok <=> \/ C3_ColorsMismatch
                     \/ C3_TextsMismatch /\ call.texts.v # <<>>)

\* Two boxes with two colours and one label: the boxes are drawn, then the
\* assertion on texts fails.
C3_Witness ==
    /\ BBoxCalled /\ C3_N = 2
    /\ call.colors = Some(<<COLOR_GREEN, COLOR_BLUE>>) /\ call.texts = Some(<<"car">>)
    /\ ~ret.ok /\ ret.err = "AssertionError: len(boxes) != len(texts)"
    /\ img # call.img

\* The state after a call that drew boxes and no text.
C7_Drawn ==
    /\ BBoxCalled /\ ret.ok
    /\ ~call.texts.given \/ call.texts.v = <<>>
C7_Colours(colors) ==
    IF colors.given THEN colors.v ELSE [i \in 1..C3_N |-> COLOR_RED]
\* Every colors argument a second call on the same boxes accepts.
C7_SecondColors == {None} \cup {Some(q) : q \in [1..C3_N -> Palette]}
C7_Again(colors) == render_bbox2d_on_image(img, call.bboxes2d, colors, None).img
C7_Strokes == [i \in 1..C3_N |->
                  PolyPixels(box_corners(call.bboxes2d[i]), ImgSize, ImgSize)]
\* The last box whose outline (in strokes) covers pixel px, 0 when none does.
C7_Last(strokes, px) ==
    IF \A i \in 1..C3_N : px \notin strokes[i] THEN 0
    ELSE CHOOSE i \in 1..C3_N :
             px \in strokes[i] /\ \A j \in (i + 1)..C3_N : px \notin strokes[j]
C7_Idempotent == C7_Again(call.colors) = img
\* After the second call every stroke pixel has the second call's colour of
\* the last box covering it, and every other pixel is as it was.
C7_LastWriteWins(colors) ==
    LET again == C7_Again(colors)
        strokes == C7_Strokes
        colour_of == C7_Colours(colors)
    IN  \A px \in Pixels(img) :
            LET last == C7_Last(strokes, px) IN
            again[px[1]][px[2]] = IF last = 0 THEN img[px[1]][px[2]] ELSE colour_of[last]
C7_Differs(colors) == C7_Again(colors) # img
\* Some stroke pixel inside the image has different colours in the two calls.
C7_VisibleChange(colors) ==
    LET strokes == C7_Strokes
        first == C7_Colours(call.colors)
        second == C7_Colours(colors)
    IN  \E px \in Pixels(img) :
            LET last == C7_Last(strokes, px) IN
            last # 0 /\ first[last] # second[last]

\* C7 as stated: a second call with the same boxes and colours gives the
\* image of the first call; a second call with different colours leaves every
\* stroke pixel in the second call's colour, so the image differs from the
\* one the single first call gave.
C7_Original ==
    C7_Drawn =>
        /\ C7_Idempotent
        /\ \A colors \in C7_SecondColors :
              C7_Colours(colors) # C7_Colours(call.colors) =>
                  C7_LastWriteWins(colors) /\ C7_Differs(colors)

\* C7 amended: a second call with the same boxes and colours gives the image
\* of the first call; a second call with any colours leaves every stroke
\* pixel in the second call's colour of the last box covering it and every
\* other pixel as it was, and the image differs from the first call's exactly
\* when some stroke pixel inside the image has a different colour in the
\* two calls (boxes wholly outside the image, or wholly painted over by
\* later boxes of unchanged colour, make no difference).
C7_Redraw ==
    C7_Drawn =>
        /\ C7_Idempotent
        /\ \A colors \in C7_SecondColors :
              /\ C7_LastWriteWins(colors)
              /\ C7_Differs(colors) <=> C7_VisibleChange(colors)

\* Two overlapping boxes in different colours on a black image: the second
\* box's colour is on the shared pixel, the first box's on its own pixel.
C7_Witness ==
    /\ C7_Drawn
    /\ call.bboxes2d = << <<0, 0, 1, 1>>, <<1, 1, 0, 0>> >>
    /\ call.colors = Some(<<COLOR_GREEN, COLOR_BLUE>>)
    /\ call.img = Uniform(ImgSize, ImgSize, COLOR_BLACK)
    /\ img[1][1] = COLOR_BLUE /\ img[0][0] = COLOR_GREEN

(***************************************************************************)
(* Bounds of the render_pointcloud_on_image inputs.  A projected point is  *)
(* [u, v, z, colour]: u and v the numerators over CoordDen of the pixel    *)
(* coordinates Camera.project returned, z the numerator of its             *)
(* camera-frame depth, colour what the colormap gave it.                   *)
(***************************************************************************)
CoordDen == 2       \* coordinates are numerator / CoordDen
MaxPts == 1         \* points per cloud
MaxDepth == 1       \* largest depth numerator

JetColours == {<<127, 0, 0>>, <<0, 0, 127>>}

Projected ==
    [u : (-1)..(ImgSize * CoordDen), v : (-1)..(ImgSize * CoordDen),
     z : (-1)..MaxDepth, colour : JetColours]

ProjectedClouds == UNION {[1..n -> Projected] : n \in 1..MaxPts}

(***************************************************************************)
(* numpy indexing and cv2.dilate.                                          *)
(***************************************************************************)
\* A numpy index i into an axis of length n: a negative index counts from
\* the end, an index outside -n..n-1 raises IndexError.
IndexOk(i, n) == -n <= i /\ i < n
Wrap(i, n) == IF i < 0 THEN i + n ELSE i

\* a[rows, cols] = values with integer index arrays: the assignments are made
\* in order, so the last value written to a pixel stays.  idx is the list of
\* <<row, column>> pairs.
RECURSIVE FancyAssign(_, _, _, _)
FancyAssign(im, idx, values, n) ==
    IF n = 0 THEN im
    ELSE Paint(FancyAssign(im, idx, values, n - 1),
               {<<Wrap(idx[n][1], Height(im)), Wrap(idx[n][2], Width(im))>>}, values[n])

SetMax(S) == CHOOSE m \in S : \A x \in S : x <= m

\* cv2.dilate(vis, np.ones((5, 5))): every channel of a pixel becomes the
\* largest value of that channel in the 5 x 5 window around it.
dilate(im) ==
    [r \in DOMAIN im |-> [c \in DOMAIN im[r] |->
        [k \in 1..3 |->
            SetMax({im[px[1]][px[2]][k] : px \in
                {q \in Pixels(im) : Abs(q[1] - r) <= 2 /\ Abs(q[2] - c) <= 2}})]]]

\* np.maximum(a, b) on two images of one shape.
np_maximum(a, b) ==
    [r \in DOMAIN a |-> [c \in DOMAIN a[r] |->
        [k \in 1..3 |-> Max(a[r][c][k], b[r][c][k])]]]

SelectSeq2(s, keep) ==
    LET F[i \in 0..Len(s)] ==
            IF i = 0 THEN <<>>
            ELSE IF keep[i] THEN Append(F[i - 1], s[i]) ELSE F[i - 1]
    IN  F[Len(s)]

(***************************************************************************)
(* render_pointcloud_on_image, lines 133-178, from the projected points    *)
(* (lines 160-167 are the camera's and the colormap's work).               *)
(***************************************************************************)
\* Mutant of pc_in_view: the depth test is left out.
pc_in_view_no_depth(pt, H, W) ==
    /\ pt.u >= 0 /\ pt.v >= 0
    /\ pt.u < W * CoordDen
    /\ pt.v < H * CoordDen

\* Line 172: (uv >= 0).all(axis=1), uv[:, 0] < W, uv[:, 1] < H, z_c > 0, on
\* the float coordinates.
pc_in_view(pt, H, W) ==
    /\ pt.u >= 0 /\ pt.v >= 0
    /\ pt.u < W * CoordDen
    /\ pt.v < H * CoordDen
    /\ pt.z > 0

render_pointcloud_on_image(im, pts) ==
    LET H == Height(im)
        W == Width(im)
        vis0 == Uniform(H, W, COLOR_BLACK)
        in_view == [i \in 1..Len(pts) |-> pc_in_view(pts[i], H, W)]
        kept == SelectSeq2(pts, in_view)
        \* line 173: uv[in_view].astype(int); line 174 indexes vis[v, u]
        idx == [i \in 1..Len(kept) |->
                   <<Trunc(kept[i].v, CoordDen), Trunc(kept[i].u, CoordDen)>>]
        colors == [i \in 1..Len(kept) |-> kept[i].colour]
    IN
    IF \E i \in 1..Len(idx) : ~IndexOk(idx[i][1], H) \/ ~IndexOk(idx[i][2], W)
    THEN [ok |-> FALSE, err |-> "IndexError", in_view |-> in_view, idx |-> idx]
    ELSE
    LET vis == FancyAssign(vis0, idx, colors, Len(idx)) IN
    [ok |-> TRUE, in_view |-> in_view, idx |-> idx, vis |-> vis,
     img |-> np_maximum(dilate(vis), im)]

InitPC ==
    /\ call = NoCall
    /\ ret = None
    /\ img \in {Uniform(ImgSize, ImgSize, c) : c \in {COLOR_BLACK, COLOR_GREEN}}
    /\ self = None
    /\ ctor = None
    /\ log = <<>>
    /\ ncalls = 0

\* One call of render_pointcloud_on_image; the caller's image is not written.
CallRenderPointcloudOnImage ==
    /\ ncalls < 1
    /\ \E pts \in ProjectedClouds :
          /\ call' = [name |-> "render_pointcloud_on_image", points |-> pts]
          /\ ret' = render_pointcloud_on_image(img, pts)
    /\ ncalls' = ncalls + 1
    /\ UNCHANGED <<img, self, ctor, log>>

SpecPC == InitPC /\ [][CallRenderPointcloudOnImage]_vars

(***************************************************************************)
(* Claim about render_pointcloud_on_image.                                 *)
(***************************************************************************)
PCCalled == call.name = "render_pointcloud_on_image"

\* C6: a projected point contributes to the overlay iff u >= 0, v >= 0,
\* u < W, v < H and z > 0; a point with z <= 0 is excluded whatever its
\* pixel coordinates; every overlay index written lies inside the H x W
\* image and the call does not fail.
C6_Retention ==
    PCCalled =>
        /\ ret.ok
        /\ \A i \in 1..Len(call.points) :
              LET pt == call.points[i] IN
              /\ ret.in_view[i] <=>
                    /\ 0 <= pt.u /\ 0 <= pt.v
                    /\ pt.u < ImgSize * CoordDen /\ pt.v < ImgSize * CoordDen
                    /\ pt.z > 0
              /\ pt.z <= 0 => ~ret.in_view[i]
        /\ Len(ret.idx) = Cardinality({i \in 1..Len(call.points) : ret.in_view[i]})
        /\ \A k \in 1..Len(ret.idx) :
              /\ 0 <= ret.idx[k][1] /\ ret.idx[k][1] < ImgSize
              /\ 0 <= ret.idx[k][2] /\ ret.idx[k][2] < ImgSize
        /\ \A px \in Pixels(ret.vis) :
              ret.vis[px[1]][px[2]] # COLOR_BLACK =>
                  \E k \in 1..Len(ret.idx) : ret.idx[k] = px

\* A point at fractional pixel coordinates inside the image with positive
\* depth is written to the overlay at its truncated coordinates.
C6_Witness ==
    /\ PCCalled /\ ret.ok
    /\ \E i \in 1..Len(call.points) :
          /\ call.points[i].u = 3 /\ call.points[i].v = 1 /\ call.points[i].z = 1
          /\ ret.in_view[i]
          /\ ret.vis[0][1] = call.points[i].colour

(***************************************************************************)
(* Bounds of the BEVImage inputs.  Metric extents and point coordinates    *)
(* are numerators over CoordDen; pixels_per_meter and the polar step are   *)
(* whole numbers.                                                          *)
(***************************************************************************)
MaxMetres == 2      \* largest metric extent, in metres
MaxPPM == 2         \* largest pixels_per_meter
MaxStep == 1        \* largest polar_step_size_meters
WideMetres == 4     \* largest metric extent where only the constructor runs
WideStep == 3       \* largest polar step where only the constructor runs
MaxCoord == 2       \* largest coordinate numerator of a point or box centre
MaxCloud == 1       \* points per cloud
MaxBoxes3d == 1     \* boxes per render_bounding_box_3d call
MaxCalls == 2       \* render calls per canvas

\* The axes of an (N, 3) point array, line 232.
Axes == {0, 1, 2}

CtorArgs(maxMetres, maxStep) ==
    [metric_width : CoordDen..(maxMetres * CoordDen),
     metric_height : CoordDen..(maxMetres * CoordDen),
     pixels_per_meter : 1..MaxPPM,
     polar_step_size_meters : 1..maxStep,
     xaxis : Axes, yaxis : Axes]

Coords == (-MaxCoord)..MaxCoord

\* The points of a cloud for a canvas: render_point_cloud reads the two
\* configured axes only (line 237), the coordinate on the third is 0.
PointsFor(me) ==
    {pt \in [1..3 -> Coords] :
        \A k \in Axes : k # me._xaxis /\ k # me._yaxis => pt[k + 1] = 0}

\* The corners of a 3D box centred at c with half extents e, in the order
\* of BoundingBox3D.corners: 0-3 the front face, 4-7 the back face.
Cuboid(c, e) ==
    LET sx == <<1, 1, 1, 1, -1, -1, -1, -1>>
        sy == <<1, -1, -1, 1, 1, -1, -1, 1>>
        sz == <<1, 1, -1, -1, 1, 1, -1, -1>>
    IN  [i \in 1..8 |->
            <<c[1] + sx[i] * e[1], c[2] + sy[i] * e[2], c[3] + sz[i] * e[3]>>]

Boxes3d == {Cuboid(<<0, 0, 0>>, <<2, 1, 1>>), Cuboid(<<MaxCoord, -1, 0>>, <<2, 1, 1>>)}

COLOR_YELLOW == <<255, 255, 0>>

\* cv2.circle(img, center, radius, colour, 1): the pixels whose distance
\* from center rounds to radius.
CirclePixels(center, radius, h, w) ==
    {px \in (0..(h - 1)) \X (0..(w - 1)) :
        LET d2 == (px[2] - center[1]) * (px[2] - center[1])
                    + (px[1] - center[2]) * (px[1] - center[2])
        IN  \/ radius = 0 /\ d2 = 0
            \/ radius * radius - radius < d2 /\ d2 <= radius * radius + radius}

\* One drawing call as the log records it.
Circle(center, radius, colour) ==
    [op |-> "circle", at |-> <<center>>, radius |-> radius, colour |-> colour]
Line(p, q, colour) ==
    [op |-> "line", at |-> <<p, q>>, radius |-> 0, colour |-> colour]
Text(org, colour) ==
    [op |-> "putText", at |-> <<org>>, radius |-> 0, colour |-> colour]

\* The pixels a logged drawing call writes in an h x w image.
DrawPixels(d, h, w) ==
    IF d.op = "circle" THEN CirclePixels(d.at[1], d.radius, h, w)
    ELSE IF d.op = "line" THEN LinePixels(d.at[1], d.at[2], h, w)
    ELSE TextPixels(d.at[1], h, w)

\* The image after the drawing calls of draws, made in order.
RECURSIVE Draw(_, _, _)
Draw(im, draws, n) ==
    IF n = 0 THEN im
    ELSE Paint(Draw(im, draws, n - 1),
               DrawPixels(draws[n], Height(im), Width(im)), draws[n].colour)

(***************************************************************************)
(* BEVImage.__init__, lines 205-222.                                       *)
(***************************************************************************)
\* Mutant of polar_range: the ring at the last multiple is drawn too.
polar_range_inclusive(metric_width, metric_height, step) ==
    LET n == Trunc(Max(metric_width, metric_height), CoordDen) \div step
    IN  [k \in 1..n |-> k]

\* Line 219: range(1, int(max(metric_width, metric_height)) // step), as the
\* list of its values.
polar_range(metric_width, metric_height, step) ==
    LET n == Trunc(Max(metric_width, metric_height), CoordDen) \div step
    IN  [k \in 1..(n - 1) |-> k]

\* Lines 219-222: one circle per value of the range.
polar_grid(a, center) ==
    LET ks == polar_range(a.metric_width, a.metric_height, a.polar_step_size_meters)
    IN  [i \in 1..Len(ks) |->
            Circle(center, ks[i] * a.polar_step_size_meters * a.pixels_per_meter,
                   COLOR_DARKGRAY)]

\* The object the constructor leaves, and the circles it drew; the
\* assertion of line 208 fails before any field is set.
BEVImage_init(a) ==
    IF ~(a.xaxis # a.yaxis)
    THEN [ok |-> FALSE, err |-> "AssertionError", self |-> None, log |-> <<>>]
    ELSE
    LET W == Trunc(a.metric_width * a.pixels_per_meter, CoordDen)
        H == Trunc(a.metric_height * a.pixels_per_meter, CoordDen)
        center == <<W \div 2, H \div 2>>
        rings == polar_grid(a, center)
    IN  [ok |-> TRUE,
         self |-> [given |-> TRUE,
                   _metric_width |-> a.metric_width,
                   _metric_height |-> a.metric_height,
                   _pixels_per_meter |-> a.pixels_per_meter,
                   _xaxis |-> a.xaxis,
                   _yaxis |-> a.yaxis,
                   _center_pixel |-> center,
                   data |-> Draw(Uniform(H, W, COLOR_BLACK), rings, Len(rings))],
         log |-> rings]

(***************************************************************************)
(* BEVImage.render_point_cloud, lines 227-244.  A point is <<x, y, z>>,    *)
(* indexed by axis + 1.                                                    *)
(***************************************************************************)
GRAY128 == <<128, 128, 128>>

\* Lines 238-239: the float pixel coordinates <<column, row>> of a point, as
\* numerators over CoordDen.
bev_project(me, pt) ==
    << me._center_pixel[1] * CoordDen + pt[me._xaxis + 1] * me._pixels_per_meter,
       me._center_pixel[2] * CoordDen - pt[me._yaxis + 1] * me._pixels_per_meter >>

\* Mutant of bev_in_view: the bounds are tested on the truncated coordinates.
bev_in_view_truncated(p2d, H, W) ==
    /\ Trunc(p2d[1], CoordDen) >= 0 /\ Trunc(p2d[2], CoordDen) >= 0
    /\ Trunc(p2d[1], CoordDen) < W
    /\ Trunc(p2d[2], CoordDen) < H

\* Line 242: (point_cloud2d >= 0).all(axis=1), [:, 0] < W, [:, 1] < H, on the
\* float coordinates.
bev_in_view(p2d, H, W) ==
    /\ p2d[1] >= 0 /\ p2d[2] >= 0
    /\ p2d[1] < W * CoordDen
    /\ p2d[2] < H * CoordDen

\* Mutant of bev_write: the gray value is added to the pixel.
bev_write_additive(data, idx) ==
    [r \in DOMAIN data |-> [c \in DOMAIN data[r] |->
        IF <<r, c>> \in {idx[i] : i \in 1..Len(idx)}
        THEN [k \in 1..3 |-> (data[r][c][k] + 128) % 256]
        ELSE data[r][c]]]

\* Mutant of bev_write: the raster is replaced by its transpose.
bev_write_transposed(data, idx) ==
    LET out == FancyAssign(data, idx, [i \in 1..Len(idx) |-> GRAY128], Len(idx))
    IN  [c \in 0..(Width(data) - 1) |-> [r \in DOMAIN data |-> out[r][c]]]

\* Line 244: self.data[uv[:, 1], uv[:, 0], :] = 128.
bev_write(data, idx) ==
    FancyAssign(data, idx, [i \in 1..Len(idx) |-> GRAY128], Len(idx))

render_point_cloud(me, point_cloud) ==
    LET H == Height(me.data)
        W == Width(me.data)
        point_cloud2d == [i \in 1..Len(point_cloud) |-> bev_project(me, point_cloud[i])]
        in_view == [i \in 1..Len(point_cloud) |-> bev_in_view(point_cloud2d[i], H, W)]
        kept == SelectSeq2(point_cloud2d, in_view)
        \* line 241: astype(np.int32); line 244 indexes data[v, u]
        idx == [i \in 1..Len(kept) |->
                   <<Trunc(kept[i][2], CoordDen), Trunc(kept[i][1], CoordDen)>>]
    IN
    IF \E i \in 1..Len(idx) : ~IndexOk(idx[i][1], H) \/ ~IndexOk(idx[i][2], W)
    THEN [ok |-> FALSE, err |-> "IndexError", in_view |-> in_view, idx |-> idx,
          self |-> me]
    ELSE [ok |-> TRUE, in_view |-> in_view, idx |-> idx,
          self |-> [me EXCEPT !.data = bev_write(me.data, idx)]]

(***************************************************************************)
(* BEVImage.render_bounding_box_3d, lines 246-291.                         *)
(***************************************************************************)
\* Mutant of edge_colours: the second edge takes the palette's second entry.
edge_colours_in_order(colors) == <<colors[1], colors[2], colors[4], colors[3]>>

\* Lines 284-287: the colours of the four edges drawn, colors[0], colors[3],
\* colors[3] and colors[2] (Python indices).
edge_colours(colors) == <<colors[1], colors[4], colors[4], colors[3]>>

\* Lines 284-287: the corner pairs of the four edges drawn (Python indices).
EdgeCorners == << <<0, 1>>, <<3, 4>>, <<1, 5>>, <<4, 5>> >>

\* Lines 269-287: the drawing calls for one box.
box_draws(me, corners, colors) ==
    LET f == [i \in 1..8 |-> bev_project(me, corners[i])]
        center == <<Trunc(SumSeq([i \in 1..8 |-> f[i][1]]), 8 * CoordDen),
                    Trunc(SumSeq([i \in 1..8 |-> f[i][2]]), 8 * CoordDen)>>
        corners2d == [i \in 1..8 |->
                         <<Trunc(f[i][1], CoordDen), Trunc(f[i][2], CoordDen)>>]
        c(k) == corners2d[k + 1]
        front == <<(c(0)[1] + c(1)[1]) \div 2, (c(0)[2] + c(1)[2]) \div 2>>
        ec == edge_colours(colors)
    IN  << Circle(center, 1, COLOR_GREEN),
           Line(center, front, COLOR_WHITE) >>
        \o [j \in 1..4 |-> Line(c(EdgeCorners[j][1]), c(EdgeCorners[j][2]), ec[j])]

\* Lines 267-291 for the first n boxes: the drawing calls made, and whether
\* texts[bidx] raised (texts is indexed only when it is truthy).
RECURSIVE boxes_draws(_, _, _, _, _)
boxes_draws(me, bboxes3d, colors, texts, n) ==
    IF n = 0 THEN [ok |-> TRUE, draws |-> <<>>]
    ELSE LET prev == boxes_draws(me, bboxes3d, colors, texts, n - 1) IN
         IF ~prev.ok THEN prev
         ELSE LET mine == prev.draws \o box_draws(me, bboxes3d[n], colors)
                  f0 == bev_project(me, bboxes3d[n][1])
                  org == <<Trunc(f0[1], CoordDen), Trunc(f0[2], CoordDen)>>
              IN  IF ~texts.given \/ texts.v = <<>>
                  THEN [ok |-> TRUE, draws |-> mine]
                  ELSE IF n > Len(texts.v)
                  THEN [ok |-> FALSE, draws |-> mine]
                  ELSE [ok |-> TRUE, draws |-> Append(mine, Text(org, COLOR_WHITE))]

render_bounding_box_3d(me, bboxes3d, color, texts) ==
    LET colors == IF ~color.given
                  THEN <<COLOR_RED, COLOR_GREEN, COLOR_BLUE, COLOR_GRAY>>
                  ELSE <<color.v, color.v, color.v, color.v>>
        out == boxes_draws(me, bboxes3d, colors, texts, Len(bboxes3d))
    IN  [ok |-> out.ok, log |-> out.draws,
         self |-> [me EXCEPT !.data = Draw(me.data, out.draws, Len(out.draws))]]

(***************************************************************************)
(* The life of a canvas: constructed once, then rendered on.               *)
(***************************************************************************)
\* BEVImage(...) with arguments of argSet, while no canvas exists.
Construct(argSet) ==
    /\ ~self.given
    /\ ncalls = 0
    /\ call.name = "none"
    /\ \E a \in argSet :
          LET out == BEVImage_init(a) IN
          /\ call' = [name |-> "BEVImage", args |-> a]
          /\ ret' = IF out.ok THEN [ok |-> TRUE] ELSE Fail(out.err)
          /\ self' = out.self
          /\ ctor' = IF out.ok THEN Some(a) ELSE None
          /\ log' = out.log
    /\ UNCHANGED <<img, ncalls>>

CallRenderPointCloud ==
    /\ self.given
    /\ ncalls < MaxCalls
    /\ \E point_cloud \in SeqsUpTo(PointsFor(self), MaxCloud) :
          LET out == render_point_cloud(self, point_cloud) IN
          /\ call' = [name |-> "render_point_cloud", point_cloud |-> point_cloud,
                      before |-> self.data]
          /\ ret' = IF out.ok THEN [ok |-> TRUE, in_view |-> out.in_view, idx |-> out.idx]
                     ELSE [ok |-> FALSE, err |-> out.err, in_view |-> out.in_view,
                           idx |-> out.idx]
          /\ self' = out.self
    /\ log' = <<>>
    /\ ncalls' = ncalls + 1
    /\ UNCHANGED <<img, ctor>>

CallRenderBoundingBox3d ==
    /\ self.given
    /\ ncalls < MaxCalls
    /\ \E bboxes3d \in SeqsUpTo(Boxes3d, MaxBoxes3d),
          color \in {None, Some(COLOR_YELLOW)},
          texts \in OptSeqs(Labels, MaxBoxes3d) :
          LET out == render_bounding_box_3d(self, bboxes3d, color, texts) IN
          /\ call' = [name |-> "render_bounding_box_3d", bboxes3d |-> bboxes3d,
                      color |-> color, texts |-> texts, before |-> self.data]
          /\ ret' = IF out.ok THEN [ok |-> TRUE] ELSE Fail("IndexError")
          /\ self' = out.self
          /\ log' = out.log
    /\ ncalls' = ncalls + 1
    /\ UNCHANGED <<img, ctor>>

NextBEV ==
    \/ Construct(CtorArgs(MaxMetres, MaxStep))
    \/ CallRenderPointCloud
    \/ CallRenderBoundingBox3d

SpecBEV == InitIdle /\ [][NextBEV]_vars

SpecBEVInit == InitIdle /\ [][Construct(CtorArgs(WideMetres, WideStep))]_vars

(***************************************************************************)
(* Claims about BEVImage.                                                  *)
(***************************************************************************)
\* C4: constructing with xaxis = yaxis fails and leaves no canvas; for every
\* canvas, after any render calls the two axes differ and the raster's height
\* and width, pixels-per-meter, axis pair and center pixel are the values
\* fixed at construction.
C4_Lifecycle ==
    /\ call.name = "BEVImage" /\ call.args.xaxis = call.args.yaxis
          => ~ret.ok /\ ~self.given
    /\ self.given =>
          /\ ctor.given
          /\ self._xaxis # self._yaxis
          /\ self._xaxis = ctor.v.xaxis /\ self._yaxis = ctor.v.yaxis
          /\ self._pixels_per_meter = ctor.v.pixels_per_meter
          /\ Height(self.data) = Trunc(ctor.v.metric_height * ctor.v.pixels_per_meter, CoordDen)
          /\ \A r \in DOMAIN self.data :
                DOMAIN self.data[r] =
                    0..(Trunc(ctor.v.metric_width * ctor.v.pixels_per_meter, CoordDen) - 1)
          /\ DOMAIN self.data = 0..(Height(self.data) - 1)
          /\ self._center_pixel = <<Width(self.data) \div 2, Height(self.data) \div 2>>

\* A canvas wider than high, after a point cloud wrote gray and a box was
\* drawn over it.
C4_Witness ==
    /\ self.given /\ ncalls = 2 /\ call.name = "render_bounding_box_3d"
    /\ Width(self.data) > Height(self.data)
    /\ \E px \in Pixels(self.data) : call.before[px[1]][px[2]] = GRAY128
    /\ self.data # call.before

PointCloudRendered == call.name = "render_point_cloud"

\* What the claim computes: column and row numerators over CoordDen.
C5_Column(pt) ==
    self._center_pixel[1] * CoordDen + pt[self._xaxis + 1] * self._pixels_per_meter
C5_Row(pt) ==
    self._center_pixel[2] * CoordDen - pt[self._yaxis + 1] * self._pixels_per_meter
C5_Retained(pt) ==
    /\ 0 <= C5_Column(pt) /\ C5_Column(pt) < Width(self.data) * CoordDen
    /\ 0 <= C5_Row(pt) /\ C5_Row(pt) < Height(self.data) * CoordDen
C5_Hit(px) ==
    \E i \in 1..Len(call.point_cloud) :
        /\ C5_Retained(call.point_cloud[i])
        /\ px = <<Trunc(C5_Row(call.point_cloud[i]), CoordDen),
                  Trunc(C5_Column(call.point_cloud[i]), CoordDen)>>

\* C5: render_point_cloud never fails; a point maps to column
\* center_x + x*ppm and row center_y - y*ppm and is retained iff
\* 0 <= column < W and 0 <= row < H; afterwards every pixel hit by a retained
\* point is (128,128,128), every other pixel is unchanged, and no index
\* outside the canvas is written.
C5_PointCloudEffect ==
    PointCloudRendered =>
        /\ ret.ok
        /\ \A i \in 1..Len(call.point_cloud) :
              ret.in_view[i] <=> C5_Retained(call.point_cloud[i])
        /\ \A k \in 1..Len(ret.idx) :
              /\ 0 <= ret.idx[k][1] /\ ret.idx[k][1] < Height(self.data)
              /\ 0 <= ret.idx[k][2] /\ ret.idx[k][2] < Width(self.data)
        /\ DOMAIN self.data = DOMAIN call.before
        /\ \A px \in Pixels(self.data) :
              self.data[px[1]][px[2]] =
                  IF C5_Hit(px) THEN GRAY128 ELSE call.before[px[1]][px[2]]

\* A point at the origin turns the center pixel gray, on a canvas that
\* already holds a ring.
C5_Witness ==
    /\ PointCloudRendered /\ ret.ok
    /\ call.point_cloud = << <<0, 0, 0>> >>
    /\ ret.in_view[1]
    /\ call.before[self._center_pixel[2]][self._center_pixel[1]] = COLOR_BLACK
    /\ self.data[self._center_pixel[2]][self._center_pixel[1]] = GRAY128
    /\ \E px \in Pixels(self.data) : self.data[px[1]][px[2]] = COLOR_DARKGRAY

Constructed == call.name = "BEVImage" /\ ret.ok
C8_MaxExtent == Max(call.args.metric_width, call.args.metric_height)
C8_Radii == {log[i].radius : i \in 1..Len(log)}
C8_RingsAtCenter ==
    \A i \in 1..Len(log) :
        /\ log[i].op = "circle" /\ log[i].at = <<self._center_pixel>>
        /\ log[i].colour = COLOR_DARKGRAY

\* C8 as stated: the constructor draws rings at the center pixel at radii
\* k * step metres (in pixels) for every k >= 1 with k * step not above
\* max(metric_width, metric_height).
C8_Original ==
    Constructed =>
        /\ C8_RingsAtCenter
        /\ C8_Radii =
              {k * call.args.polar_step_size_meters * call.args.pixels_per_meter :
                  k \in {j \in 1..C8_MaxExtent :
                      j * call.args.polar_step_size_meters * CoordDen <= C8_MaxExtent}}

\* C8 amended: the rings are at radii k * step metres for every k >= 1 with
\* k < int(max(metric_width, metric_height)) // step, drawn in increasing
\* order: the largest multiple of the step not above the extent gets no ring.
C8_PolarRings ==
    Constructed =>
        /\ C8_RingsAtCenter
        /\ Len(log) = Max(0, (Trunc(C8_MaxExtent, CoordDen)
                                 \div call.args.polar_step_size_meters) - 1)
        /\ \A k \in 1..Len(log) :
              log[k].radius =
                  k * call.args.polar_step_size_meters * call.args.pixels_per_meter

\* A 3.5 m by 2 m canvas with a 1 m step: rings at 1 m and 2 m, none at 3 m.
C8_Witness ==
    /\ Constructed
    /\ call.args.metric_width = 7 /\ call.args.metric_height = 4
    /\ call.args.polar_step_size_meters = 1 /\ call.args.pixels_per_meter = 2
    /\ Len(log) = 2 /\ log[1].radius = 2 /\ log[2].radius = 4
    /\ self.data[2][1] = COLOR_DARKGRAY

BoxesRendered == call.name = "render_bounding_box_3d" /\ ret.ok
C9_Labelled == call.texts.given /\ call.texts.v # <<>>
C9_PerBox == IF C9_Labelled THEN 7 ELSE 6
\* Corner k (Python index) of box b in pixels.
C9_Corner(b, k) ==
    LET f == bev_project(self, call.bboxes3d[b][k + 1])
    IN  <<Trunc(f[1], CoordDen), Trunc(f[2], CoordDen)>>
C9_EdgeColours ==
    IF call.color.given
    THEN <<call.color.v, call.color.v, call.color.v, call.color.v>>
    ELSE <<COLOR_RED, COLOR_GRAY, COLOR_GRAY, COLOR_BLUE>>

C10_Clouds == SeqsUpTo(PointsFor(self), MaxCloud)
C10_Render(data, cloud) == render_point_cloud([self EXCEPT !.data = data], cloud).self.data

\* C10: from any canvas, rendering cloud A then B gives the canvas of B then
\* A and of their concatenation rendered once; rendering A twice gives the
\* canvas of A once; a pixel a render_point_cloud call set to (128,128,128)
\* is not changed by a later render_point_cloud call.
C10_OrderIndependent ==
    PointCloudRendered /\ ret.ok =>
        /\ C10_Render(self.data, call.point_cloud) = self.data
        /\ \A px \in Pixels(self.data) :
              call.before[px[1]][px[2]] = GRAY128 => self.data[px[1]][px[2]] = GRAY128
        /\ \A B \in C10_Clouds :
              LET thenB == C10_Render(self.data, B) IN
              /\ thenB = C10_Render(C10_Render(call.before, B), call.point_cloud)
              /\ thenB = C10_Render(call.before, call.point_cloud \o B)
              /\ \A px \in Pixels(self.data) :
                    self.data[px[1]][px[2]] = GRAY128 => thenB[px[1]][px[2]] = GRAY128

\* A second cloud rendered on a canvas that already holds a gray pixel,
\* adding another one.
C10_Witness ==
    /\ PointCloudRendered /\ ret.ok /\ ncalls = 2
    /\ \E px \in Pixels(self.data) : call.before[px[1]][px[2]] = GRAY128
    /\ \E px \in Pixels(self.data) :
          call.before[px[1]][px[2]] # GRAY128 /\ self.data[px[1]][px[2]] = GRAY128

====
